---- MODULE Spec2Model ----
(***************************************************************************)
(* Notebook execution tracking and status reporting.                       *)
(*                                                                         *)
(* One execution is modelled: the lifecycle script that runs on the host,  *)
(* the Python executor (execute_notebook_with_tracking.py) it starts, the  *)
(* object store they write to, and a client that reads the status through  *)
(* SageMakerService.getNotebookExecutionStatus.                            *)
(***************************************************************************)
EXTENDS Integers, Sequences, FiniteSets, TLC

\* ------------------------------------------------------------------------
\* Bounds of the model
\* ------------------------------------------------------------------------
MaxCells == 3
MaxClientCells == 2
MaxFaults == 1
MaxWait == 2
MaxRuns == 2
MaxClock == 2
MaxInFlight == 2
MaxLogLoads == 32
MaxFiles == 27

\* ------------------------------------------------------------------------
\* Program constants
\* ------------------------------------------------------------------------
TruncLimit == 500
EllipsisLen == 3
SleepSeconds == 5

executionId == "exec-1"
fileName == "notebook.ipynb"
notebookPath == "s3://notebooks/exec-1/notebook.ipynb"
outputPath == "s3://out/executions/exec-1/executed-notebook.ipynb"

\* Object keys under executions/{executionId}/
statusKey == "executions/exec-1/status.json"
shutdownKey == "executions/exec-1/shutdown_marker.json"
outputKey == "executions/exec-1/executed-notebook.ipynb"
logKey == "executions/exec-1/execution.log"
shutdownReasonKey == "executions/exec-1/shutdown_reason.txt"
partialCellKey == "executions/exec-1/partial_executed-notebook.ipynb"
partialExecutionKey == "executions/exec-1/partial_execution.ipynb"

\* Files in the working directory of the host
executedFileName == "executed-notebook.ipynb"
partialFileName == "partial_exec-1.ipynb"
logFileName == "execution.log"
shutdownReasonFile == "shutdown_reason.txt"

Min(a, b) == IF a < b THEN a ELSE b

Max(a, b) == IF a > b THEN a ELSE b

\* ------------------------------------------------------------------------
\* Text.  The texts of the model are the first `chars` characters of a cell
\* source followed by `dots` characters "."; the string operations of the
\* code are computed on this form.
\* ------------------------------------------------------------------------
SourceText(n) == [chars |-> n, dots |-> 0]
TextLen(t) == t.chars + t.dots
\* Python t[:n]
Slice(t, n) == [chars |-> Min(n, t.chars),
                dots |-> Min(t.dots, Max(0, n - t.chars))]
\* Python t + ("." * d)
AddDots(t, d) == [t EXCEPT !.dots = @ + d]

\* Source lengths of the code cells of the input notebooks
SourceLens == {TruncLimit, TruncLimit + 1}

\* execution_count of a cell that was never executed (Python None)
NoCount == 0

MarkdownCell == [cell_type |-> "markdown", execution_count |-> NoCount,
                 source |-> SourceText(3), outputs |-> <<>>]
CodeCells == [cell_type : {"code"}, execution_count : {NoCount, 1},
              source : {SourceText(n) : n \in SourceLens}, outputs : {<<>>}]
Cells == {MarkdownCell} \cup CodeCells
Notebooks == UNION {[1..n -> Cells] : n \in 0..MaxCells}

\* Python indexes cells from 0
CellAt(notebook, i) == notebook[i + 1]

VARIABLES
    nb,             \* the notebook object of the executor (nb.cells)
    now,            \* wall clock of the host, in seconds
    s3,             \* the object store: key -> object, for the keys that exist
    markerPuts,     \* number of put_object calls on shutdownKey so far
    localFiles,     \* files in the working directory of the host
    scriptPc,       \* position of the lifecycle script
    EXECUTION_FAILED, \* shell variable of the lifecycle script
    pc,             \* position of the executor process
    cell_index,     \* index of the cell handed to execute_cell
    start_time,     \* global start_time of the executor
    exc,            \* the exception being handled by the executor
    exit_code,      \* exit code of the executor process, -1 while it runs
    stopRequests,   \* number of stop_notebook_instance requests issued
    hostStopped,    \* the compute host has been stopped
    faults,         \* number of failed storage or platform calls so far
    pollPc,         \* position of the client inside getNotebookExecutionStatus
    statusJson,     \* status object parsed by the call in progress
    result,         \* what the last completed call returned or threw
    prev,           \* what the status record returned before that one showed
    script,         \* the bytes the runner script writes to its log, in order
    localLog,       \* LOCAL_LOG_FILE of the runner script
    logs,           \* the log bucket: key -> bytes, for the keys that exist
    runnerPc,       \* position of the runner script
    streamPc,       \* position of the notebook-logs stream
    lastPosition,   \* lastPosition of the stream
    isJobComplete,  \* isJobComplete of the stream
    events,         \* the events enqueued on the stream so far
    cancelled,      \* the caller has cancelled the stream
    lastRead,       \* how the last GetObjectCommand of the stream ended
    waitPc,         \* position of waitForExecution
    timeoutMs,      \* timeoutMs of waitForExecution, in poll intervals
    elapsed,        \* Date.now() - startTime of waitForExecution, likewise
    clock,          \* new Date().getTime() of the server, in ms
    runs,           \* the calls of runNotebook: position and timestamp of each
    instances,      \* the instance names for which an instance was created
    upPc,           \* NotebookUploader: position of handleSubmit
    file,           \* NotebookUploader: a notebook file is selected
    statusInterval, \* NotebookUploader state: the interval of the status polling
    logPollingInterval, \* NotebookUploader state: the interval of the log polling
    checkingStatus, \* NotebookUploader state: checkingStatus
    jobStatus,      \* NotebookUploader state: jobStatus
    logLoadAttempts, \* NotebookUploader state: number of calls of fetchLogContent
    logContent,     \* NotebookUploader state: the log text shown
    submitRender,   \* the state seen by the functions of the render that submitted
    timers,         \* the timers of the page that are set and not cleared
    inFlight,       \* calls of checkJobStatus that await their response
    currentAttempts, \* currentAttempts of startLogStreaming
    etlPc,          \* weights-etl: position of the running invocation of handler
    checkpointFiles, \* number of objects under the checkpoint prefix
    TrainingJobStatus, \* status of the training job
    attempts,       \* attempts of waitForJobToStop
    attempted,      \* the checkpoint files for which a copy was attempted
    queued,         \* an invocation event of the handler is queued
    etlFailed       \* an invocation of the handler has returned statusCode 500

vars == <<nb, now, s3, markerPuts, localFiles, scriptPc, EXECUTION_FAILED, pc,
          cell_index, start_time, exc, exit_code, stopRequests, hostStopped, faults,
          pollPc, statusJson, result, prev,
          script, localLog, logs, runnerPc,
          streamPc, lastPosition, isJobComplete, events, cancelled, lastRead,
          waitPc, timeoutMs, elapsed, clock, runs, instances,
          upPc, file, statusInterval, logPollingInterval, checkingStatus,
          jobStatus, logLoadAttempts, logContent, submitRender, timers,
          inFlight, currentAttempts,
          etlPc, checkpointFiles, TrainingJobStatus, attempts, attempted,
          queued, etlFailed>>

execVars == <<nb, pc, cell_index, start_time, exc, exit_code>>
scriptVars == <<scriptPc, EXECUTION_FAILED>>
pollVars == <<pollPc, statusJson, result, prev>>
hostVars == <<nb, now, s3, markerPuts, localFiles, scriptVars, execVars,
              stopRequests, hostStopped, faults>>
runnerVars == <<script, localLog, logs, runnerPc>>
streamVars == <<streamPc, lastPosition, isJobComplete, events, cancelled, lastRead>>
waitVars == <<waitPc, timeoutMs, elapsed>>
submitVars == <<clock, runs, instances>>
upVars == <<upPc, file, statusInterval, logPollingInterval, checkingStatus,
            jobStatus, logLoadAttempts, logContent, submitRender, timers,
            inFlight, currentAttempts>>
etlVars == <<etlPc, checkpointFiles, TrainingJobStatus, attempts, attempted,
             queued, etlFailed>>
frontVars == <<runnerVars, streamVars, waitVars, submitVars, upVars, etlVars>>

\* ------------------------------------------------------------------------
\* Object store
\* ------------------------------------------------------------------------
Exists(key) == key \in DOMAIN s3
Put(store, key, body) == (key :> body) @@ store

\* ------------------------------------------------------------------------
\* Executor: helpers
\* ------------------------------------------------------------------------
iso_time == [iso |-> now]

IsCode(cell) == cell.cell_type = "code"
IsCounted(cell) == IsCode(cell) /\ cell.execution_count # NoCount

\* counts the code cells whose execution_count is None
completed_cells_mut(notebook) ==
    Cardinality({i \in 1..Len(notebook) :
                    IsCode(notebook[i]) /\ notebook[i].execution_count = NoCount})

total_cells(notebook) ==
    Cardinality({i \in 1..Len(notebook) : IsCode(notebook[i])})
completed_cells(notebook) ==
    Cardinality({i \in 1..Len(notebook) : IsCounted(notebook[i])})

\* divides before it multiplies
Progress_mut(completed, total) ==
    IF total = 0 THEN 0 ELSE 100 * (completed \div total)

Progress(completed, total) ==
    IF total = 0 THEN 0 ELSE (100 * completed) \div total

\* appends the marker whenever the source reaches the limit
Truncate_mut(source) ==
    AddDots(Slice(source, TruncLimit),
            IF TextLen(source) >= TruncLimit THEN EllipsisLen ELSE 0)

\* source[:500] + ("..." if len(source) > 500 else "")
Truncate(source) ==
    AddDots(Slice(source, TruncLimit),
            IF TextLen(source) > TruncLimit THEN EllipsisLen ELSE 0)

\* A Python dict / JSON object is a function from the keys that are present.
Field(cond, key, value) == IF cond THEN (key :> value) ELSE [k \in {} |-> 0]

\* update_status(..., nb, status, error_message, error_detail, traceback_str,
\*               current_cell_idx, cell_error_output): the status object it
\* builds and uploads.  args holds the keyword arguments that were passed.
status_obj(notebook, args) ==
    LET status == IF "status" \in DOMAIN args THEN args.status ELSE "RUNNING"
        hasIdx == "current_cell_idx" \in DOMAIN args
        inRange == hasIdx /\ args.current_cell_idx < Len(notebook)
        hasCurrent == inRange /\ IsCode(CellAt(notebook, args.current_cell_idx))
    IN  [executionId |-> executionId,
         status |-> status,
         startTime |-> start_time,
         notebookPath |-> notebookPath,
         expectedOutputPath |-> outputPath,
         cellsTotal |-> total_cells(notebook),
         cellsCompleted |-> completed_cells(notebook),
         progress |-> Progress(completed_cells(notebook), total_cells(notebook))]
        @@ Field(status \in {"COMPLETED", "FAILED"}, "endTime", iso_time)
        @@ Field(hasCurrent, "currentCell",
                 [index |-> args.current_cell_idx,
                  source |-> Truncate(CellAt(notebook, args.current_cell_idx).source)])
        @@ Field("error_message" \in DOMAIN args, "errorMessage", args.error_message)
        @@ Field("error_detail" \in DOMAIN args, "errorDetail", args.error_detail)
        @@ Field("traceback_str" \in DOMAIN args, "stackTrace", args.traceback_str)
        @@ Field("cell_error_output" \in DOMAIN args, "cellErrorOutput", args.cell_error_output)
        @@ Field(status = "FAILED", "systemInfo", "system info")

update_status(notebook, args) == Put(s3, statusKey, status_obj(notebook, args))

\* ------------------------------------------------------------------------
\* Faults: a call to the object store or to the platform may raise.
\* ------------------------------------------------------------------------
CallOutcomes == IF faults < MaxFaults THEN {TRUE, FALSE} ELSE {TRUE}
Count(ok) == faults' = (IF ok THEN faults ELSE faults + 1)

NoArgs == [k \in {} |-> 0]
NoExc == [type |-> "none"]
CellExecutionError ==
    [type |-> "CellExecutionError",
     message |-> "An error occurred while executing the following cell"]
DeadKernelError == [type |-> "DeadKernelError", message |-> "Kernel died"]
ClientError == [type |-> "ClientError", message |-> "put_object failed"]
str(e) == e.message

ErrorOutput == [output_type |-> "error", ename |-> "Exception",
                evalue |-> "boom", traceback |-> "cell traceback"]

\* extract_cell_error_output(cell): the error and stderr outputs of the cell
extract_cell_error_output(cell) ==
    SelectSeq(cell.outputs, LAMBDA o : o.output_type = "error")

\* ------------------------------------------------------------------------
\* Executor: __main__
\* ------------------------------------------------------------------------
\* Uncaught exception: the interpreter prints the traceback and exits 1
Crash == /\ pc' = "exited"
         /\ exit_code' = 1

\* An exception that reaches `except Exception as e` of __main__
RaiseToMain(e) == /\ pc' = "main_failed"
                  /\ exc' = e

\* The position after execute_cell(cell_index) has returned: the next cell of
\* client.execute(), or the end of the loop
AfterCell(i) == IF i + 1 < Len(nb)
                THEN pc' = "cell_pre" /\ cell_index' = i + 1
                ELSE pc' = "complete" /\ cell_index' = cell_index

\* sys.argv, start_time = iso_time(), nb = nbformat.read(...)
MainStart ==
    /\ pc = "main" /\ ~hostStopped
    /\ \E ok \in CallOutcomes :
         /\ Count(ok)
         /\ start_time' = iso_time
         /\ IF ok THEN pc' = "init_status" /\ exit_code' = exit_code
                  ELSE Crash
    /\ UNCHANGED <<nb, now, s3, markerPuts, localFiles, scriptVars, cell_index,
                   exc, stopRequests, hostStopped, pollVars, frontVars>>

\* update_status(s3_bucket, s3_key, ..., nb), before the try block
MainInitStatus ==
    /\ pc = "init_status" /\ ~hostStopped
    /\ \E ok \in CallOutcomes :
         /\ Count(ok)
         /\ IF ok
            THEN /\ s3' = update_status(nb, NoArgs)
                 /\ IF Len(nb) > 0
                    THEN pc' = "cell_pre" /\ cell_index' = 0
                    ELSE pc' = "complete" /\ cell_index' = cell_index
                 /\ exit_code' = exit_code
            ELSE /\ Crash
                 /\ UNCHANGED <<s3, cell_index>>
    /\ UNCHANGED <<nb, now, markerPuts, localFiles, scriptVars, start_time,
                   exc, stopRequests, hostStopped, pollVars, frontVars>>

\* ------------------------------------------------------------------------
\* Executor: CellTrackingClient.execute_cell
\* ------------------------------------------------------------------------
\* update_status(..., current_cell_idx=cell_index) before execution
CellPre ==
    /\ pc = "cell_pre" /\ ~hostStopped
    /\ \E ok \in CallOutcomes :
         /\ Count(ok)
         /\ IF ok
            THEN /\ s3' = update_status(nb, [current_cell_idx |-> cell_index])
                 /\ pc' = "cell_exec"
                 /\ exc' = exc
            ELSE /\ RaiseToMain(ClientError)
                 /\ s3' = s3
    /\ UNCHANGED <<nb, now, markerPuts, localFiles, scriptVars, cell_index,
                   start_time, exit_code, stopRequests, hostStopped, pollVars, frontVars>>

SetCell(i, cell) == [nb EXCEPT ![i + 1] = cell]

\* result = super().execute_cell(cell, cell_index, **kwargs)
CellExec ==
    /\ pc = "cell_exec" /\ ~hostStopped
    /\ LET cell == CellAt(nb, cell_index) IN
       IF ~IsCode(cell)
       THEN /\ pc' = "cell_post"
            /\ UNCHANGED <<nb, exc>>
       ELSE \E outcome \in {"ok", "cell_error", "kernel_error"} :
              CASE outcome = "ok" ->
                     /\ nb' = SetCell(cell_index,
                                [cell EXCEPT !.execution_count = cell_index + 1,
                                             !.outputs = <<>>])
                     /\ pc' = "cell_post"
                     /\ exc' = exc
                [] outcome = "cell_error" ->
                     \* the kernel may or may not have reported the execution
                     \* count of the cell before the error is raised
                     \E counted \in BOOLEAN :
                       /\ nb' = SetCell(cell_index,
                                  [cell EXCEPT
                                     !.execution_count =
                                        IF counted THEN cell_index + 1 ELSE @,
                                     !.outputs = <<ErrorOutput>>])
                       /\ pc' = "cell_failed"
                       /\ exc' = CellExecutionError
                [] outcome = "kernel_error" ->
                     /\ nb' = nb
                     /\ RaiseToMain(DeadKernelError)
    /\ UNCHANGED <<now, s3, markerPuts, localFiles, scriptVars, cell_index,
                   start_time, exit_code, stopRequests, hostStopped, faults,
                   pollVars, frontVars>>

\* execute_cell without the update_status after the execution
CellPost_mut ==
    /\ pc = "cell_post" /\ ~hostStopped
    /\ AfterCell(cell_index)
    /\ UNCHANGED <<nb, now, s3, markerPuts, localFiles, scriptVars, start_time,
                   exc, exit_code, stopRequests, hostStopped, faults, pollVars,
                   frontVars>>

\* update_status(..., current_cell_idx=cell_index) after successful execution
CellPost ==
    /\ pc = "cell_post" /\ ~hostStopped
    /\ \E ok \in CallOutcomes :
         /\ Count(ok)
         /\ IF ok
            THEN /\ s3' = update_status(nb, [current_cell_idx |-> cell_index])
                 /\ AfterCell(cell_index)
                 /\ exc' = exc
            ELSE /\ RaiseToMain(ClientError)
                 /\ UNCHANGED <<s3, cell_index>>
    /\ UNCHANGED <<nb, now, markerPuts, localFiles, scriptVars, start_time,
                   exit_code, stopRequests, hostStopped, pollVars, frontVars>>

Some(seq, key) == IF Len(seq) > 0 THEN (key :> seq) ELSE NoArgs

\* except CellExecutionError as e: update_status(..., status="FAILED", ...)
cell_error_args(cell, i, e) ==
    [status |-> "FAILED",
     error_message |-> str(e),
     error_detail |-> [cellIndex |-> i,
                       cellSource |-> cell.source,
                       errorType |-> e.type,
                       errorMessage |-> str(e)],
     traceback_str |-> "traceback",
     current_cell_idx |-> i]
    @@ Some(extract_cell_error_output(cell), "cell_error_output")

CellFailed ==
    /\ pc = "cell_failed" /\ ~hostStopped
    /\ \E ok \in CallOutcomes :
         /\ Count(ok)
         /\ IF ok
            THEN /\ s3' = update_status(nb,
                            cell_error_args(CellAt(nb, cell_index), cell_index, exc))
                 /\ pc' = "cell_partial"
                 /\ exc' = exc
            ELSE /\ RaiseToMain(ClientError)
                 /\ s3' = s3
    /\ UNCHANGED <<nb, now, markerPuts, localFiles, scriptVars, cell_index,
                   start_time, exit_code, stopRequests, hostStopped, pollVars, frontVars>>

\* nbformat.write(nb, partial file); s3.upload_file(partial file, bucket, key)
\* inside try / except Exception: any failure is printed and swallowed
SavePartial(key) ==
    \E outcome \in {"ok"} \cup
                   (IF faults < MaxFaults THEN {"write_failed", "upload_failed"} ELSE {}) :
      /\ Count(outcome = "ok")
      /\ localFiles' = IF outcome = "write_failed" THEN localFiles
                       ELSE localFiles \cup {partialFileName}
      /\ s3' = IF outcome = "ok" THEN Put(s3, key, nb) ELSE s3

CellPartial ==
    /\ pc = "cell_partial" /\ ~hostStopped
    /\ SavePartial(partialCellKey)
    /\ pc' = "cell_marker"
    /\ UNCHANGED <<nb, now, markerPuts, scriptVars, cell_index, start_time,
                   exc, exit_code, stopRequests, hostStopped, pollVars, frontVars>>

\* ------------------------------------------------------------------------
\* Executor: create_shutdown_marker and initiate_instance_shutdown
\* ------------------------------------------------------------------------
marker_content(reason) ==
    [reason |-> reason, timestamp |-> iso_time, executionId |-> executionId]

\* create_shutdown_marker(bucket, execution_id, reason): put the marker, then
\* write shutdown_reason.txt; an exception of either is caught and False is
\* returned
create_shutdown_marker(reason) ==
    \E outcome \in {"ok"} \cup
                   (IF faults < MaxFaults THEN {"put_failed", "write_failed"}
                    ELSE {}) :
      /\ Count(outcome = "ok")
      /\ s3' = IF outcome # "put_failed"
               THEN Put(s3, shutdownKey, marker_content(reason)) ELSE s3
      /\ markerPuts' = IF outcome # "put_failed" THEN markerPuts + 1
                       ELSE markerPuts
      /\ localFiles' = IF outcome = "ok" THEN localFiles \cup {shutdownReasonFile}
                       ELSE localFiles

\* initiate_instance_shutdown, first half: bucket and execution_id are given,
\* so the marker is created and the process sleeps
ShutdownMarkerStep(reason) ==
    /\ create_shutdown_marker(reason)
    /\ now' = now + SleepSeconds

\* a shutdown that gives up when the marker was not written
StopStep_mut ==
    /\ faults' = faults
    /\ stopRequests' = IF Exists(shutdownKey) /\ shutdownReasonFile \in localFiles
                       THEN stopRequests + 1 ELSE stopRequests

\* initiate_instance_shutdown, second half: resolve the instance name and
\* request the stop; returns False when the name is empty, and any exception
\* (metadata lookup, stop request) is caught
StopStep ==
    \E outcome \in {"stop"} \cup
                   (IF faults < MaxFaults THEN {"no_name", "error"} ELSE {}) :
      /\ Count(outcome = "stop")
      /\ stopRequests' = IF outcome = "stop" THEN stopRequests + 1
                         ELSE stopRequests

cell_reason(i) == [text |-> "Cell execution failed at index", index |-> i]
main_reason(e) == [text |-> "Notebook execution failed", error |-> str(e)]

CellMarker ==
    /\ pc = "cell_marker" /\ ~hostStopped
    /\ ShutdownMarkerStep(cell_reason(cell_index))
    /\ pc' = "cell_stop"
    /\ UNCHANGED <<nb, scriptVars, cell_index, start_time, exc, exit_code,
                   stopRequests, hostStopped, pollVars, frontVars>>

\* a handler that ends without `raise`: client.execute() goes on
CellStop_mut ==
    /\ pc = "cell_stop" /\ ~hostStopped
    /\ StopStep
    /\ AfterCell(cell_index)
    /\ exc' = exc
    /\ UNCHANGED <<nb, now, s3, markerPuts, localFiles, scriptVars,
                   start_time, exit_code, hostStopped, pollVars, frontVars>>

\* the stop request of the cell-error handler, then `raise`
CellStop ==
    /\ pc = "cell_stop" /\ ~hostStopped
    /\ StopStep
    /\ RaiseToMain(exc)
    /\ UNCHANGED <<nb, now, s3, markerPuts, localFiles, scriptVars, cell_index,
                   start_time, exit_code, hostStopped, pollVars, frontVars>>

\* ------------------------------------------------------------------------
\* Executor: __main__, end of the try block and the exception handler
\* ------------------------------------------------------------------------
\* as Complete, with a handler that also catches the SystemExit of sys.exit(0)
Complete_mut ==
    /\ pc = "complete" /\ ~hostStopped
    /\ s3' = update_status(nb, [status |-> "COMPLETED"])
    /\ RaiseToMain([type |-> "SystemExit", message |-> "0"])
    /\ UNCHANGED <<nb, now, markerPuts, localFiles, scriptVars, cell_index,
                   start_time, exit_code, stopRequests, hostStopped, faults,
                   pollVars, frontVars>>

\* update_status(..., status="COMPLETED"); sys.exit(0).  SystemExit is not an
\* Exception, so the handler below does not see it.  Whether the engine left
\* the output notebook file behind is not decided by this repository's code.
Complete ==
    /\ pc = "complete" /\ ~hostStopped
    /\ \E ok \in CallOutcomes, wrote \in BOOLEAN :
         /\ Count(ok)
         /\ localFiles' = IF wrote THEN localFiles \cup {executedFileName}
                          ELSE localFiles
         /\ IF ok
            THEN /\ s3' = update_status(nb, [status |-> "COMPLETED"])
                 /\ pc' = "exited"
                 /\ exit_code' = 0
                 /\ exc' = exc
            ELSE /\ RaiseToMain(ClientError)
                 /\ UNCHANGED <<s3, exit_code>>
    /\ UNCHANGED <<nb, now, markerPuts, scriptVars, cell_index, start_time,
                   stopRequests, hostStopped, pollVars, frontVars>>

\* The first code cell whose execution_count is None, if there is one
Unexecuted(notebook) ==
    {i \in 0..(Len(notebook) - 1) :
        IsCode(CellAt(notebook, i)) /\ CellAt(notebook, i).execution_count = NoCount}
FirstOf(S) == CHOOSE i \in S : \A j \in S : i <= j

main_error_args(notebook, e) ==
    [status |-> "FAILED",
     error_message |-> str(e),
     error_detail |-> [errorType |-> e.type,
                       errorMessage |-> str(e),
                       executionEnv |-> "cwd, user, path"],
     traceback_str |-> "traceback"]
    @@ (IF Unexecuted(notebook) = {} THEN NoArgs
        ELSE [current_cell_idx |-> FirstOf(Unexecuted(notebook))]
             @@ Some(extract_cell_error_output(
                        CellAt(notebook, FirstOf(Unexecuted(notebook)))),
                     "cell_error_output"))

\* except Exception as e: update_status(..., status="FAILED", ...)
MainFailed ==
    /\ pc = "main_failed" /\ ~hostStopped
    /\ \E ok \in CallOutcomes :
         /\ Count(ok)
         /\ IF ok
            THEN /\ s3' = update_status(nb, main_error_args(nb, exc))
                 /\ pc' = "main_partial"
                 /\ exit_code' = exit_code
            ELSE /\ Crash
                 /\ s3' = s3
    /\ UNCHANGED <<nb, now, markerPuts, localFiles, scriptVars, cell_index,
                   start_time, exc, stopRequests, hostStopped, pollVars, frontVars>>

MainPartial ==
    /\ pc = "main_partial" /\ ~hostStopped
    /\ SavePartial(partialExecutionKey)
    /\ pc' = "main_marker"
    /\ UNCHANGED <<nb, now, markerPuts, scriptVars, cell_index, start_time,
                   exc, exit_code, stopRequests, hostStopped, pollVars, frontVars>>

MainMarker ==
    /\ pc = "main_marker" /\ ~hostStopped
    /\ ShutdownMarkerStep(main_reason(exc))
    /\ pc' = "main_stop"
    /\ UNCHANGED <<nb, scriptVars, cell_index, start_time, exc, exit_code,
                   stopRequests, hostStopped, pollVars, frontVars>>

\* the handler without its sys.exit(1): the script runs off its end
MainStop_mut ==
    /\ pc = "main_stop" /\ ~hostStopped
    /\ StopStep
    /\ pc' = "exited"
    /\ exit_code' = 0
    /\ UNCHANGED <<nb, now, s3, markerPuts, localFiles, scriptVars, cell_index,
                   start_time, exc, hostStopped, pollVars, frontVars>>

\* the stop request of the handler, then sys.exit(1)
MainStop ==
    /\ pc = "main_stop" /\ ~hostStopped
    /\ StopStep
    /\ pc' = "exited"
    /\ exit_code' = 1
    /\ UNCHANGED <<nb, now, s3, markerPuts, localFiles, scriptVars, cell_index,
                   start_time, exc, hostStopped, pollVars, frontVars>>

\* ------------------------------------------------------------------------
\* Compute platform: a requested stop takes effect at some later moment and
\* ends every process of the host
\* ------------------------------------------------------------------------
HostStops ==
    /\ stopRequests > 0 /\ ~hostStopped
    /\ hostStopped' = TRUE
    /\ UNCHANGED <<nb, now, s3, markerPuts, localFiles, scriptVars, pc,
                   cell_index, start_time, exc, exit_code, stopRequests,
                   faults, pollVars, frontVars>>

\* ------------------------------------------------------------------------
\* Lifecycle script (createAutoExecuteNotebookScript), run with `set -e`
\* ------------------------------------------------------------------------
Null == [null |-> TRUE]

initial_status ==
    [executionId |-> executionId,
     status |-> "RUNNING",
     startTime |-> iso_time,
     notebookPath |-> notebookPath,
     expectedOutputPath |-> outputPath,
     cellsTotal |-> 0,
     cellsCompleted |-> 0,
     currentCell |-> Null,
     progress |-> 0]

\* aws s3 cp - s3://.../status.json <<EOL ... EOL
ScriptWriteStatus ==
    /\ scriptPc = "boot" /\ ~hostStopped
    /\ \E ok \in CallOutcomes :
         /\ Count(ok)
         /\ s3' = IF ok THEN Put(s3, statusKey, initial_status) ELSE s3
         /\ scriptPc' = IF ok THEN "setup" ELSE "aborted"
    /\ UNCHANGED <<nb, now, markerPuts, localFiles, EXECUTION_FAILED, execVars,
                   stopRequests, hostStopped, pollVars, frontVars>>

\* download of the notebook and of the executor script, then
\* python execute_notebook_with_tracking.py ... 2>&1 | tee execution.log
ScriptLaunch ==
    /\ scriptPc = "setup" /\ ~hostStopped
    /\ scriptPc' = "python"
    /\ pc' = "main"
    /\ localFiles' = localFiles \cup {fileName, logFileName}
    /\ UNCHANGED <<nb, now, s3, markerPuts, EXECUTION_FAILED, cell_index,
                   start_time, exc, exit_code, stopRequests, hostStopped,
                   faults, pollVars, frontVars>>

\* ... | tee execution.log || EXECUTION_FAILED=true
\* Without pipefail the status of the pipeline is the status of tee, whatever
\* the exit code of the executor.
ScriptPipelineDone ==
    /\ scriptPc = "python" /\ pc = "exited" /\ ~hostStopped
    /\ \E tee_ok \in BOOLEAN :
         EXECUTION_FAILED' = ~tee_ok
    /\ scriptPc' = "upload_log"
    /\ UNCHANGED <<nb, now, s3, markerPuts, localFiles, execVars, stopRequests,
                   hostStopped, faults, pollVars, frontVars>>

\* aws s3 cp execution.log s3://.../execution.log
ScriptUploadLog ==
    /\ scriptPc = "upload_log" /\ ~hostStopped
    /\ \E ok \in CallOutcomes :
         /\ Count(ok)
         /\ s3' = IF ok THEN Put(s3, logKey, "log") ELSE s3
         /\ scriptPc' = IF ok THEN "results" ELSE "aborted"
    /\ UNCHANGED <<nb, now, markerPuts, localFiles, EXECUTION_FAILED, execVars,
                   stopRequests, hostStopped, pollVars, frontVars>>

\* if [ -z "$EXECUTION_FAILED" ]: aws s3 cp ${executedFileName} s3://.../${outputKey}
ScriptUploadExecuted ==
    /\ scriptPc = "results" /\ ~EXECUTION_FAILED /\ ~hostStopped
    /\ \E ok \in CallOutcomes :
         /\ Count(ok)
         /\ IF ok /\ executedFileName \in localFiles
            THEN s3' = Put(s3, outputKey, "executed notebook") /\ scriptPc' = "done"
            ELSE s3' = s3 /\ scriptPc' = "aborted"
    /\ UNCHANGED <<nb, now, markerPuts, localFiles, EXECUTION_FAILED, execVars,
                   stopRequests, hostStopped, pollVars, frontVars>>

\* else: upload the partial notebook if present, the log, and
\* shutdown_reason.txt (created here when the executor did not create it)
ScriptFailureBranch ==
    /\ scriptPc = "results" /\ EXECUTION_FAILED /\ ~hostStopped
    /\ \E ok \in CallOutcomes :
         /\ Count(ok)
         /\ IF ok
            THEN /\ s3' = (IF partialFileName \in localFiles
                           THEN (partialExecutionKey :> nb) ELSE NoArgs)
                          @@ (logKey :> "log")
                          @@ (shutdownReasonKey :> "reason")
                          @@ s3
                 /\ localFiles' = localFiles \cup {shutdownReasonFile}
                 /\ scriptPc' = "done"
            ELSE /\ UNCHANGED <<s3, localFiles>>
                 /\ scriptPc' = "aborted"
    /\ UNCHANGED <<nb, now, markerPuts, EXECUTION_FAILED, execVars,
                   stopRequests, hostStopped, pollVars, frontVars>>

\* ------------------------------------------------------------------------
\* Client: SageMakerService.getNotebookExecutionStatus and
\* NotebookRunner.checkExecutionStatus
\* ------------------------------------------------------------------------
NoResult == [none |-> TRUE]
NewDate(t) == [ms |-> t.iso * 1000]
DateNow == [ms |-> now * 1000]

\* the record returned when HeadObject fails
PendingResult ==
    [executionId |-> executionId,
     status |-> "PENDING",
     outputs |-> <<>>,
     startTime |-> DateNow,
     notebookPath |-> "",
     outputPath |-> ""]

\* JSON.parse and the conversion of startTime and endTime to Date
ParseStatus(body) ==
    [k \in DOMAIN body |->
        IF k \in {"startTime", "endTime"} THEN NewDate(body[k]) ELSE body[k]]

Copy(json, key, as) == Field(key \in DOMAIN json, as, json[key])

shutdownInfo(store) ==
    IF shutdownKey \in DOMAIN store
    THEN [isInstanceShutdown |-> TRUE,
          shutdownReason |-> store[shutdownKey].reason,
          shutdownTime |-> NewDate(store[shutdownKey].timestamp)]
    ELSE [isInstanceShutdown |-> FALSE]

\* the object literal returned at the end of getNotebookExecutionStatus;
\* a property whose value is undefined is left out
ExecutionResult(json, shutdown) ==
    [outputs |-> <<>>,
     notebookPath |-> IF "notebookPath" \in DOMAIN json THEN json.notebookPath ELSE "",
     outputPath |-> IF "outputPath" \in DOMAIN json THEN json.outputPath ELSE ""]
    @@ Copy(json, "executionId", "executionId")
    @@ Copy(json, "status", "status")
    @@ Copy(json, "errorMessage", "errorMessage")
    @@ Copy(json, "startTime", "startTime")
    @@ Copy(json, "endTime", "endTime")
    @@ Copy(json, "cellsTotal", "cellsTotal")
    @@ Copy(json, "cellsCompleted", "cellsCompleted")
    @@ Copy(json, "progress", "progress")
    @@ Copy(json, "currentCell", "currentCell")
    @@ Copy(json, "errorDetail", "errorDetail")
    @@ Copy(json, "stackTrace", "stackTrace")
    @@ Copy(json, "cellErrorOutput", "cellErrorOutput")
    @@ Copy(json, "systemInfo", "systemInfo")
    @@ shutdown

\* what a call that threw leaves its caller with
Thrown == [thrown |-> "Error"]

\* checkExecutionStatus: a null status becomes a PENDING record, a status is
\* passed on, an error is logged and thrown again
checkExecutionStatus(status) ==
    IF status = NoResult THEN PendingResult ELSE status

\* download route: the key of an s3:// URI is what follows the bucket name
KeyOf(path) == IF path = outputPath THEN outputKey ELSE path

\* download route, GET: 400 unless the execution is COMPLETED, 404 when the
\* result has no outputPath, else the object at the key of outputPath
download(executionResult) ==
    IF executionResult.status # "COMPLETED"
    THEN [status |-> 400, error |-> "Notebook execution is not completed yet"]
    ELSE IF executionResult.outputPath = ""
    THEN [status |-> 404, error |-> "Output path not found in execution result"]
    ELSE [status |-> 200, key |-> KeyOf(executionResult.outputPath)]

\* a result that was built from the status object
IsStatus(r) == "cellsCompleted" \in DOMAIN r
Observed(r) == [status |-> r.status, cellsCompleted |-> r.cellsCompleted]
               @@ Copy(r, "endTime", "endTime")

Return(r) == /\ result' = r
             /\ prev' = IF IsStatus(result) THEN Observed(result) ELSE prev
             /\ pollPc' = "idle"
             /\ statusJson' = NoResult

\* as PollStatus, without the try / catch around HeadObjectCommand
PollStatus_mut ==
    /\ pollPc = "idle"
    /\ \E head_ok, get_ok \in BOOLEAN :
         IF ~(Exists(statusKey) /\ head_ok /\ get_ok)
         THEN Return(Thrown)
         ELSE /\ statusJson' = ParseStatus(s3[statusKey])
              /\ pollPc' = "get_marker"
              /\ UNCHANGED <<result, prev>>
    /\ UNCHANGED <<nb, now, s3, markerPuts, localFiles, scriptVars, pc,
                   cell_index, start_time, exc, exit_code, stopRequests,
                   hostStopped, faults, frontVars>>

\* HeadObjectCommand on status.json: any error returns the PENDING record.
\* Otherwise GetObjectCommand on status.json, JSON.parse and the date
\* conversion; an error there is thrown to the caller.  The object is never
\* deleted, so the two requests are taken as one step at the time of the second.
PollStatus ==
    /\ pollPc = "idle"
    /\ \E head_ok, get_ok \in BOOLEAN :
         IF ~(Exists(statusKey) /\ head_ok)
         THEN Return(PendingResult)
         ELSE IF ~get_ok
         THEN Return(Thrown)
         ELSE /\ statusJson' = ParseStatus(s3[statusKey])
              /\ pollPc' = "get_marker"
              /\ UNCHANGED <<result, prev>>
    /\ UNCHANGED <<nb, now, s3, markerPuts, localFiles, scriptVars, pc,
                   cell_index, start_time, exc, exit_code, stopRequests,
                   hostStopped, faults, frontVars>>

\* GetObjectCommand on shutdown_marker.json (an error means no marker), then
\* the return of the result
PollMarker ==
    /\ pollPc = "get_marker"
    /\ \E get_ok \in BOOLEAN :
         Return(ExecutionResult(statusJson,
                                shutdownInfo(IF get_ok THEN s3 ELSE NoArgs)))
    /\ UNCHANGED <<nb, now, s3, markerPuts, localFiles, scriptVars, pc,
                   cell_index, start_time, exc, exit_code, stopRequests,
                   hostStopped, faults, frontVars>>

\* ------------------------------------------------------------------------
\* Runner script (fullScript): appends to LOCAL_LOG_FILE and uploads the file
\* ------------------------------------------------------------------------
\* logs/${jobId}/${logType}.log, for the log the runner script uploads
streamLogKey == "logs/job-1/execution.log"

\* The bytes of a log.  "N" "C" are the two halves of the text
\* "Notebook execution completed" and "E" "R" those of "Error executing
\* notebook"; "h" "t" are the lead and the trail byte of one two-byte
\* character; every other byte is a character of its own.
CompletionText == <<"N", "C">>
ErrorText == <<"E", "R">>

\* what the converted notebook prints
PyOutputs == {<<>>, <<"p">>, <<"h", "t">>, ErrorText}

\* "Using notebook file", "Converting notebook", "Executing notebook", the
\* output of the notebook and the final echo
Scripts == {<<"u", "c", "e">> \o out \o CompletionText : out \in PyOutputs}

\* upload_logs: aws s3 cp of the whole local file
upload_logs == logs' = Put(logs, streamLogKey, localLog)

\* `... | tee -a $LOCAL_LOG_FILE`.  The uploader runs in the background while
\* tee writes, so a copy of the file can end after any byte written so far.
RunnerWrite ==
    /\ runnerPc = "running"
    /\ Len(localLog) < Len(script)
    /\ localLog' = Append(localLog, script[Len(localLog) + 1])
    /\ UNCHANGED <<script, logs, runnerPc, hostVars, pollVars, streamVars, waitVars, submitVars, upVars, etlVars>>

\* the upload after the first echo, the background loop `upload_logs; sleep 3`
\* and the uploads between the steps
UploadLogs ==
    /\ runnerPc = "running"
    /\ Len(localLog) >= 1
    /\ upload_logs
    /\ UNCHANGED <<script, localLog, runnerPc, hostVars, pollVars, streamVars, waitVars, submitVars, upVars, etlVars>>

\* the last upload_logs, exit 0 and the EXIT trap
RunnerExit ==
    /\ runnerPc = "running"
    /\ localLog = script
    /\ upload_logs
    /\ runnerPc' = "exited"
    /\ UNCHANGED <<script, localLog, hostVars, pollVars, streamVars, waitVars, submitVars, upVars, etlVars>>

\* ------------------------------------------------------------------------
\* notebook-logs stream: GET
\* ------------------------------------------------------------------------
\* String.prototype.includes
Includes(content, text) ==
    \E i \in 1..Len(content) :
        /\ i + Len(text) - 1 <= Len(content)
        /\ SubSeq(content, i, i + Len(text) - 1) = text

\* length of Buffer.toString("utf-8"): a lead byte and its trail byte make one
\* character, a byte that cannot be decoded makes one replacement character
CharLen(bytes) ==
    Len(bytes) - Cardinality({i \in 1..Len(bytes) :
                                 /\ i + 1 <= Len(bytes)
                                 /\ bytes[i] = "h" /\ bytes[i + 1] = "t"})

\* formatSSE(data, event)
formatSSE(data, event) == [event |-> event, data |-> data]

\* HeadObjectCommand on the log: 404 with an error event when it fails, else
\* the stream is created and start() enqueues the info event
StreamOpen ==
    /\ streamPc = "none"
    /\ \E head_ok \in BOOLEAN :
         IF streamLogKey \in DOMAIN logs /\ head_ok
         THEN /\ events' = <<formatSSE("Starting log stream", "info")>>
              /\ streamPc' = "loop"
         ELSE /\ events' = events
              /\ streamPc' = "not_found"
    /\ UNCHANGED <<lastPosition, isJobComplete, cancelled, lastRead,
                   hostVars, pollVars, runnerVars, waitVars, submitVars, upVars, etlVars>>

\* a catch block that reports the error to the caller and ends the loop
Catch_mut ==
    /\ events' = Append(events, formatSSE("Failed to stream notebook logs", "error"))
    /\ lastPosition' = lastPosition
    /\ isJobComplete' = TRUE

\* catch (error): console.error and nothing else
Catch ==
    /\ events' = events
    /\ lastPosition' = lastPosition
    /\ isJobComplete' = isJobComplete

\* the end of one pass of the loop: wait 3 s, or leave the loop and close
EndPass ==
    streamPc' = IF isJobComplete' THEN "closed" ELSE "wait"

\* One pass of `while (!isJobComplete)`: GetObjectCommand with
\* Range bytes=lastPosition-, which the store refuses (InvalidRange) when
\* lastPosition is not below the length of the object.  An enqueue on a
\* cancelled stream throws inside the try.
StreamGet(ok) ==
    /\ streamPc = "loop"
    /\ LET body == logs[streamLogKey]
           newContent == SubSeq(body, lastPosition + 1, Len(body))
           complete == \/ Includes(newContent, CompletionText)
                       \/ Includes(newContent, ErrorText)
       IN  IF ~ok
           THEN Catch /\ lastRead' = "error"
           ELSE IF lastPosition >= Len(body)
           THEN Catch /\ lastRead' = "InvalidRange"
           ELSE /\ lastRead' = "content"
                /\ lastPosition' = lastPosition + CharLen(newContent)
                /\ IF cancelled
                   THEN events' = events /\ isJobComplete' = isJobComplete
                   ELSE /\ isJobComplete' = complete
                        /\ events' = events
                              \o <<formatSSE(newContent, "log")>>
                              \o (IF complete
                                  THEN <<formatSSE("complete", "status")>>
                                  ELSE <<>>)
    /\ EndPass
    /\ UNCHANGED <<cancelled, hostVars, pollVars, runnerVars, waitVars, submitVars, upVars, etlVars>>

StreamRead == \E ok \in BOOLEAN : StreamGet(ok)

\* setTimeout(resolve, 3000) fires
StreamTick ==
    /\ streamPc = "wait"
    /\ streamPc' = "loop"
    /\ UNCHANGED <<lastPosition, isJobComplete, events, cancelled, lastRead,
                   hostVars, pollVars, runnerVars, waitVars, submitVars, upVars, etlVars>>

\* the caller closes the connection: the stream is cancelled.  The stream has
\* no cancel() and the loop does not look at the request's signal.
StreamCancel ==
    /\ streamPc \in {"loop", "wait"}
    /\ ~cancelled
    /\ cancelled' = TRUE
    /\ UNCHANGED <<streamPc, lastPosition, isJobComplete, events, lastRead,
                   hostVars, pollVars, runnerVars, waitVars, submitVars, upVars, etlVars>>

\* ------------------------------------------------------------------------
\* NotebookRunner.waitForExecution
\* ------------------------------------------------------------------------
\* Time is counted in poll intervals; a time above every timeoutMs is kept as
\* the first such time
Later(t, d) == Min(t + d, MaxWait + 1)

\* a loop that hands back the last status when the time is up
WaitTest_mut ==
    /\ waitPc = "test"
    /\ IF elapsed < timeoutMs
       THEN /\ waitPc' = "calling"
            /\ result' = NoResult
       ELSE /\ waitPc' = "returned"
            /\ result' = result
    /\ UNCHANGED <<timeoutMs, elapsed, pollPc, statusJson, prev, hostVars,
                   runnerVars, streamVars, submitVars, upVars, etlVars>>

\* while (Date.now() - startTime < timeoutMs): enter the body and call
\* checkExecutionStatus, or leave the loop and throw the timeout error
WaitTest ==
    /\ waitPc = "test"
    /\ IF elapsed < timeoutMs
       THEN /\ waitPc' = "calling"
            /\ result' = NoResult
       ELSE /\ waitPc' = "timeout"
            /\ result' = result
    /\ UNCHANGED <<timeoutMs, elapsed, pollPc, statusJson, prev, hostVars,
                   runnerVars, streamVars, submitVars, upVars, etlVars>>

\* the call of getNotebookExecutionStatus made by checkExecutionStatus
WaitPollStatus ==
    /\ waitPc = "calling" /\ result = NoResult
    /\ PollStatus

WaitPollMarker ==
    /\ waitPc = "calling"
    /\ PollMarker

\* the await has ended, after some time: an error of checkExecutionStatus
\* leaves waitForExecution, a COMPLETED or FAILED status is returned, any
\* other status is followed by the wait for the next poll interval
WaitGot ==
    /\ waitPc = "calling" /\ pollPc = "idle" /\ result # NoResult
    /\ \E d \in {0, 1} : elapsed' = Later(elapsed, d)
    /\ waitPc' = IF result = Thrown THEN "threw"
                 ELSE IF checkExecutionStatus(result).status \in {"COMPLETED", "FAILED"}
                 THEN "returned"
                 ELSE "sleep"
    /\ UNCHANGED <<timeoutMs, pollVars, hostVars, runnerVars, streamVars, submitVars, upVars, etlVars>>

\* setTimeout(resolve, pollIntervalMs)
WaitSleep ==
    /\ waitPc = "sleep"
    /\ elapsed' = Later(elapsed, 1)
    /\ waitPc' = "test"
    /\ UNCHANGED <<timeoutMs, pollVars, hostVars, runnerVars, streamVars, submitVars, upVars, etlVars>>

\* ------------------------------------------------------------------------
\* NotebookRunner.runNotebook
\* ------------------------------------------------------------------------
Callers == 1..MaxRuns

NotCalled == [pc |-> "idle", timestamp |-> 0]

\* `exec-${timestamp}` and `${this.config.notebookName}-${timestamp}`
ExecutionIdOf(timestamp) == [prefix |-> "exec", timestamp |-> timestamp]
InstanceNameOf(timestamp) == [prefix |-> "notebookName", timestamp |-> timestamp]

Minted(c) == runs[c].pc # "idle"

\* a millisecond goes by
Tick ==
    /\ clock < MaxClock
    /\ clock' = clock + 1
    /\ UNCHANGED <<runs, instances, hostVars, pollVars, runnerVars, streamVars,
                   waitVars, upVars, etlVars>>

\* const timestamp = new Date().getTime(), executionId and instanceName
RunMint(c) ==
    /\ runs[c].pc = "idle"
    /\ runs' = [runs EXCEPT ![c] = [pc |-> "upload", timestamp |-> clock]]
    /\ UNCHANGED <<clock, instances, hostVars, pollVars, runnerVars, streamVars,
                   waitVars, upVars, etlVars>>

\* s3Service.uploadNotebook under notebooks/${executionId}/; an error is
\* thrown to the caller
RunUpload(c) ==
    /\ runs[c].pc = "upload"
    /\ \E ok \in BOOLEAN :
         runs' = [runs EXCEPT ![c].pc = IF ok THEN "create" ELSE "failed"]
    /\ UNCHANGED <<clock, instances, hostVars, pollVars, runnerVars, streamVars,
                   waitVars, upVars, etlVars>>

\* createNotebookInstance(instanceName): the platform refuses a name that is
\* in use, and the error is thrown to the caller
RunCreate(c) ==
    /\ runs[c].pc = "create"
    /\ IF InstanceNameOf(runs[c].timestamp) \in instances
       THEN /\ runs' = [runs EXCEPT ![c].pc = "failed"]
            /\ instances' = instances
       ELSE /\ runs' = [runs EXCEPT ![c].pc = "done"]
            /\ instances' = instances \cup {InstanceNameOf(runs[c].timestamp)}
    /\ UNCHANGED <<clock, hostVars, pollVars, runnerVars, streamVars, waitVars, upVars, etlVars>>

runNotebook == \E c \in Callers : RunMint(c) \/ RunUpload(c) \/ RunCreate(c)

\* ------------------------------------------------------------------------
\* NotebookUploader component
\* ------------------------------------------------------------------------
\* The timers of the page are named after what set them: "timeout" is the
\* setTimeout of startLogStreaming, "status" the interval of handleSubmit,
\* "log" the interval of startLogStreaming and "slow" the interval that
\* replaces it after maxAttempts.
NoInterval == "null"
TerminalJobStatuses == {"Completed", "Failed", "Stopped"}
JobStatuses == {"InProgress"} \cup TerminalJobStatuses

\* const maxAttempts = 30 of startLogStreaming
logMaxAttempts == 30

\* The functions of one render see the state of that render: the state
\* variables are constants of the component function.
Render == [statusInterval |-> statusInterval,
           logPollingInterval |-> logPollingInterval,
           checkingStatus |-> checkingStatus,
           logContent |-> logContent]

\* A render is committed after the handler.  useEffect(() => () => {...},
\* [statusInterval, logPollingInterval]): when a dependency has changed, the
\* cleanup of the effect of the render before clears the intervals that
\* render saw.  live is the set of timers the handler leaves.
Commit(live) ==
    timers' = IF <<statusInterval', logPollingInterval'>>
                   # <<statusInterval, logPollingInterval>>
              THEN live \ {statusInterval, logPollingInterval}
              ELSE live

\* what /api/notebook-logs answers: nothing yet, or the text of the log
LogTexts == {"", "log text"}

\* fetchLogContent: setLogLoadAttempts(prev => prev + 1), the request of
\* /api/notebook-logs, and setLogContent when the answer is not empty
fetchLogContent ==
    /\ logLoadAttempts' = Min(logLoadAttempts + 1, MaxLogLoads)
    /\ \E data \in LogTexts :
         logContent' = IF data # "" THEN data ELSE logContent

handleFileChange ==
    /\ upPc = "form"
    /\ \E valid \in BOOLEAN : file' = valid
    /\ UNCHANGED <<upPc, statusInterval, logPollingInterval, checkingStatus,
                   jobStatus, logLoadAttempts, logContent, submitRender, timers, inFlight,
                   currentAttempts, etlVars, hostVars, pollVars, runnerVars,
                   streamVars, waitVars, submitVars>>

\* handleSubmit up to the fetch of /api/warren-run; without a file it sets
\* the error and returns
handleSubmit ==
    /\ upPc = "form" /\ file
    /\ upPc' = "posting"
    /\ submitRender' = Render
    /\ jobStatus' = "null"
    /\ logContent' = ""
    /\ UNCHANGED <<file, statusInterval, logPollingInterval, checkingStatus,
                   logLoadAttempts, timers, inFlight, currentAttempts, etlVars,
                   hostVars, pollVars, runnerVars, streamVars, waitVars,
                   submitVars>>

\* startLogStreaming up to the setTimeout, called by handleSubmit
startLogStreaming(live) ==
    (live \ {submitRender.logPollingInterval}) \cup {"timeout"}

\* handleSubmit after the response: an error shows the message; else
\* startLogStreaming when the response has a jobId, and the interval of
\* checkJobStatus when it has a jobName
SubmitResponse ==
    /\ upPc = "posting"
    /\ logPollingInterval' = logPollingInterval
    /\ \E ok, hasJobId, hasJobName \in BOOLEAN :
         IF ~ok
         THEN /\ upPc' = "form"
              /\ UNCHANGED <<statusInterval, jobStatus, logLoadAttempts,
                             logContent, timers, currentAttempts>>
         ELSE /\ upPc' = "watching"
              /\ jobStatus' = "InProgress"
              /\ logLoadAttempts' = IF hasJobId THEN 0 ELSE logLoadAttempts
              /\ logContent' = IF hasJobId THEN "" ELSE logContent
              /\ currentAttempts' = currentAttempts
              /\ statusInterval' = IF hasJobName THEN "status" ELSE statusInterval
              /\ Commit((IF hasJobId THEN startLogStreaming(timers) ELSE timers)
                        \cup (IF hasJobName THEN {"status"} ELSE {}))
    /\ UNCHANGED <<file, checkingStatus, submitRender,
                   inFlight, etlVars, hostVars, pollVars, runnerVars,
                   streamVars, waitVars, submitVars>>

\* the callback of the setTimeout of startLogStreaming, 2 s after the submit:
\* the first fetch, and the interval of 2 s
LogTimeout ==
    /\ "timeout" \in timers
    /\ fetchLogContent
    /\ currentAttempts' = 0
    /\ logPollingInterval' = "log"
    /\ statusInterval' = statusInterval
    /\ Commit((timers \ {"timeout"}) \cup {"log"})
    /\ UNCHANGED <<upPc, file, checkingStatus, jobStatus, submitRender,
                   inFlight, etlVars, hostVars, pollVars, runnerVars,
                   streamVars, waitVars, submitVars>>

\* the callback of the interval of startLogStreaming.  logContent is the
\* empty string of the render that submitted, so the interval is replaced by
\* one of 10 s when currentAttempts reaches maxAttempts.
LogTick ==
    /\ "log" \in timers
    /\ currentAttempts' = currentAttempts + 1
    /\ fetchLogContent
    /\ statusInterval' = statusInterval
    /\ IF currentAttempts' >= logMaxAttempts /\ submitRender.logContent = ""
       THEN /\ logPollingInterval' = "slow"
            /\ Commit((timers \ {"log"}) \cup {"slow"})
       ELSE /\ logPollingInterval' = logPollingInterval
            /\ Commit(timers)
    /\ UNCHANGED <<upPc, file, checkingStatus, jobStatus, submitRender,
                   inFlight, etlVars, hostVars, pollVars, runnerVars,
                   streamVars, waitVars, submitVars>>

\* the callback of the interval of 10 s
SlowTick ==
    /\ "slow" \in timers
    /\ fetchLogContent
    /\ UNCHANGED <<upPc, file, statusInterval, logPollingInterval,
                   checkingStatus, jobStatus, submitRender, timers, inFlight,
                   currentAttempts, etlVars, hostVars, pollVars, runnerVars,
                   streamVars, waitVars, submitVars>>

\* The callback of the interval of handleSubmit, 10 s after the submit and
\* so after the setTimeout of 2 s: checkJobStatus of the render that
\* submitted, up to the fetch of /api/job-status.  Its checkingStatus is the
\* one of that render.
StatusTick ==
    /\ "status" \in timers /\ "timeout" \notin timers
    /\ ~submitRender.checkingStatus
    /\ inFlight < MaxInFlight
    /\ inFlight' = inFlight + 1
    /\ checkingStatus' = TRUE
    /\ UNCHANGED <<upPc, file, statusInterval, logPollingInterval, jobStatus,
                   logLoadAttempts, logContent, submitRender, timers, currentAttempts,
                   etlVars, hostVars, pollVars, runnerVars, streamVars,
                   waitVars, submitVars>>

\* stopLogStreaming of the render that submitted
stopLogStreaming(live) ==
    /\ logPollingInterval' = IF submitRender.logPollingInterval # NoInterval
                             THEN NoInterval ELSE logPollingInterval
    /\ Commit(live \ {submitRender.logPollingInterval})

\* checkJobStatus after the response.  statusInterval and result are those
\* of the render that submitted; result is null there, so there is no last
\* fetchLogContent.
StatusResponse ==
    /\ inFlight > 0
    /\ inFlight' = inFlight - 1
    /\ checkingStatus' = FALSE
    /\ \E ok \in BOOLEAN, status \in JobStatuses :
         /\ jobStatus' = IF ok THEN status ELSE jobStatus
         /\ IF ok /\ status \in TerminalJobStatuses
            THEN /\ statusInterval' =
                       IF submitRender.statusInterval # NoInterval
                       THEN NoInterval ELSE statusInterval
                 /\ stopLogStreaming(timers \ {submitRender.statusInterval})
            ELSE /\ UNCHANGED <<statusInterval, logPollingInterval>>
                 /\ Commit(timers)
    /\ UNCHANGED <<upPc, file, logLoadAttempts, logContent, submitRender, currentAttempts,
                   etlVars, hostVars, pollVars, runnerVars, streamVars,
                   waitVars, submitVars>>

\* ------------------------------------------------------------------------
\* weights-etl: handler
\* ------------------------------------------------------------------------
\* files.length > 25 and files.slice(0, 25)
BatchSize == 25

\* const maxAttempts = 30 of waitForJobToStop
stopMaxAttempts == 30

\* ListObjectsV2Command without MaxKeys: a page holds at most 1000 keys
PageSize == 1000

\* listResponse.Contents of the listCommand, which is built once without a
\* ContinuationToken: the first page, in key order
Contents == 1..Min(checkpointFiles, PageSize)
NextContinuationToken == checkpointFiles > PageSize

StoppedStatuses == {"Stopped", "Failed", "Completed"}

\* catch (error) of handler: the invocation returns statusCode 500
EtlThrow ==
    /\ etlFailed' = TRUE
    /\ etlPc' = "idle"

\* The Lambda service starts the handler for the queued event.  The handler
\* does not read its event.
EtlInvoke ==
    /\ etlPc = "idle" /\ queued
    /\ queued' = FALSE
    /\ etlPc' = "pause"
    /\ attempts' = 0
    /\ UNCHANGED <<checkpointFiles, TrainingJobStatus, attempted, etlFailed,
                   upVars, hostVars, pollVars, runnerVars, streamVars,
                   waitVars, submitVars>>

\* pauseTrainingJob: StopTrainingJobCommand.  The platform accepts it for a
\* job in progress; for another job it answers with a ValidationException,
\* which is swallowed when its message is the expected one and thrown
\* otherwise, like any other error.
pauseTrainingJob ==
    /\ etlPc = "pause"
    /\ \E outcome \in {"stopping", "already", "error"} :
         CASE outcome = "stopping" ->
                /\ TrainingJobStatus \in {"InProgress", "Stopping"}
                /\ TrainingJobStatus' = "Stopping"
                /\ etlPc' = "wait"
                /\ etlFailed' = etlFailed
           [] outcome = "already" ->
                /\ TrainingJobStatus # "InProgress"
                /\ TrainingJobStatus' = TrainingJobStatus
                /\ etlPc' = "wait"
                /\ etlFailed' = etlFailed
           [] outcome = "error" ->
                /\ TrainingJobStatus' = TrainingJobStatus
                /\ EtlThrow
    /\ UNCHANGED <<checkpointFiles, attempts, attempted, queued, upVars,
                   hostVars, pollVars, runnerVars, streamVars, waitVars,
                   submitVars>>

\* the platform stops the job
JobStops ==
    /\ etlPc # "off"
    /\ TrainingJobStatus = "Stopping"
    /\ TrainingJobStatus' = "Stopped"
    /\ UNCHANGED <<etlPc, checkpointFiles, attempts, attempted, queued,
                   etlFailed, upVars, hostVars, pollVars, runnerVars,
                   streamVars, waitVars, submitVars>>

\* waitForJobToStop: one pass of the loop with its sleep of 10 s, or the end
\* of the loop after maxAttempts with the timeout error
waitForJobToStop ==
    /\ etlPc = "wait"
    /\ IF attempts >= stopMaxAttempts
       THEN EtlThrow /\ attempts' = attempts
       ELSE \E ok \in BOOLEAN :
              IF ~ok
              THEN EtlThrow /\ attempts' = attempts
              ELSE IF TrainingJobStatus \in StoppedStatuses
              THEN etlPc' = "path" /\ UNCHANGED <<attempts, etlFailed>>
              ELSE /\ attempts' = attempts + 1
                   /\ UNCHANGED <<etlPc, etlFailed>>
    /\ UNCHANGED <<checkpointFiles, TrainingJobStatus, attempted, queued,
                   upVars, hostVars, pollVars, runnerVars, streamVars,
                   waitVars, submitVars>>

\* getCheckpointPath: DescribeTrainingJobCommand, then a listing with
\* MaxKeys 1 that must find a file
getCheckpointPath ==
    /\ etlPc = "path"
    /\ \E ok \in BOOLEAN :
         IF ok /\ checkpointFiles > 0
         THEN etlPc' = "copy" /\ etlFailed' = etlFailed
         ELSE EtlThrow
    /\ UNCHANGED <<checkpointFiles, TrainingJobStatus, attempts, attempted,
                   queued, upVars, hostVars, pollVars, runnerVars, streamVars,
                   waitVars, submitVars>>

\* processFileBatch(files): a CopyObjectCommand for each file; a copy that
\* fails is logged
processFileBatch(files) == attempted' = attempted \cup files

\* copyCheckpointFiles: one pass of do ... while (continuationToken).  With
\* more than 25 files the first 25 are copied, the same function is invoked
\* with a continuation event and the loop is left; else the whole page is
\* copied and the loop goes on while the listing has a NextContinuationToken.
copyCheckpointFiles ==
    /\ etlPc = "copy"
    /\ \E list_ok, invoke_ok \in BOOLEAN :
         IF ~list_ok
         THEN EtlThrow /\ UNCHANGED <<attempted, queued>>
         ELSE IF Cardinality(Contents) > BatchSize
         THEN /\ processFileBatch({f \in Contents : f <= BatchSize})
              /\ IF invoke_ok
                 THEN queued' = TRUE /\ etlPc' = "idle" /\ etlFailed' = etlFailed
                 ELSE EtlThrow /\ queued' = queued
         ELSE /\ processFileBatch(Contents)
              /\ etlPc' = IF NextContinuationToken THEN "copy" ELSE "idle"
              /\ UNCHANGED <<queued, etlFailed>>
    /\ UNCHANGED <<checkpointFiles, TrainingJobStatus, attempts, upVars,
                   hostVars, pollVars, runnerVars, streamVars, waitVars,
                   submitVars>>

\* ------------------------------------------------------------------------
\* Specification
\* ------------------------------------------------------------------------
\* The state when the host boots: the notebook is one of books, and f calls
\* have failed already
Boot(books, f) ==
    /\ nb \in books
    /\ now = 1
    /\ s3 = NoArgs
    /\ markerPuts = 0
    /\ localFiles = {}
    /\ scriptPc = "boot"
    /\ EXECUTION_FAILED = FALSE
    /\ pc = "not_started"
    /\ cell_index = 0
    /\ start_time = [iso |-> 0]
    /\ exc = NoExc
    /\ exit_code = -1
    /\ stopRequests = 0
    /\ hostStopped = FALSE
    /\ faults = f
    /\ pollPc = "idle"
    /\ statusJson = NoResult
    /\ result = NoResult
    /\ prev = NoResult

\* no call of waitForExecution
WaitIdle ==
    /\ waitPc = "off"
    /\ timeoutMs = 0
    /\ elapsed = 0

\* no runner script and no log stream
LogsIdle ==
    /\ script = <<>>
    /\ localLog = <<>>
    /\ logs = NoArgs
    /\ runnerPc = "exited"
    /\ streamPc = "off"
    /\ lastPosition = 0
    /\ isJobComplete = FALSE
    /\ events = <<>>
    /\ cancelled = FALSE
    /\ lastRead = "none"

\* no call of runNotebook
SubmitIdle ==
    /\ clock = 0
    /\ runs = <<>>
    /\ instances = {}

\* no page with the NotebookUploader component
UploaderIdle ==
    /\ upPc = "off"
    /\ file = FALSE
    /\ statusInterval = NoInterval
    /\ logPollingInterval = NoInterval
    /\ checkingStatus = FALSE
    /\ jobStatus = "null"
    /\ logLoadAttempts = 0
    /\ logContent = ""
    /\ submitRender = Render
    /\ timers = {}
    /\ inFlight = 0
    /\ currentAttempts = 0

\* no invocation of the weights-etl handler
EtlIdle ==
    /\ etlPc = "off"
    /\ checkpointFiles = 0
    /\ TrainingJobStatus = "Stopped"
    /\ attempts = 0
    /\ attempted = {}
    /\ queued = FALSE
    /\ etlFailed = FALSE

FrontIdle == LogsIdle /\ WaitIdle /\ SubmitIdle /\ UploaderIdle /\ EtlIdle

Init == Boot(Notebooks, 0) /\ FrontIdle

\* The host: lifecycle script, executor and platform
Next ==
    \/ ScriptWriteStatus
    \/ ScriptLaunch
    \/ MainStart
    \/ MainInitStatus
    \/ CellPre
    \/ CellExec
    \/ CellPost
    \/ CellFailed
    \/ CellPartial
    \/ CellMarker
    \/ CellStop
    \/ Complete
    \/ MainFailed
    \/ MainPartial
    \/ MainMarker
    \/ MainStop
    \/ HostStops
    \/ ScriptPipelineDone
    \/ ScriptUploadLog
    \/ ScriptUploadExecuted
    \/ ScriptFailureBranch

Spec == Init /\ [][Next]_vars

\* The host observed by a client that calls getNotebookExecutionStatus again
\* and again; the runs of the host are those in which no call fails and the
\* notebook has at most MaxClientCells cells, whose sources have one length
ClientNotebooks ==
    {n \in Notebooks :
        /\ Len(n) <= MaxClientCells
        /\ \A i \in 1..Len(n) : IsCode(n[i]) => TextLen(n[i].source) = TruncLimit + 1}

InitClient == Boot(ClientNotebooks, MaxFaults) /\ FrontIdle

NextClient ==
    \/ Next
    \/ PollStatus
    \/ PollMarker

SpecClient == InitClient /\ [][NextClient]_vars

\* The runner script of one job and one notebook-logs stream on its log
InitLogs ==
    /\ Boot({<<>>}, MaxFaults)
    /\ WaitIdle
    /\ SubmitIdle
    /\ UploaderIdle
    /\ EtlIdle
    /\ script \in Scripts
    /\ localLog = <<>>
    /\ logs = NoArgs
    /\ runnerPc = "running"
    /\ streamPc = "none"
    /\ lastPosition = 0
    /\ isJobComplete = FALSE
    /\ events = <<>>
    /\ cancelled = FALSE
    /\ lastRead = "none"

NextLogs ==
    \/ RunnerWrite
    \/ UploadLogs
    \/ RunnerExit
    \/ StreamOpen
    \/ StreamRead
    \/ StreamTick
    \/ StreamCancel

SpecLogs == InitLogs /\ [][NextLogs]_vars

\* The host observed by one call of waitForExecution, for the notebooks of at
\* most one cell
WaitNotebooks == {n \in ClientNotebooks : Len(n) <= 1}

InitWait ==
    /\ Boot(WaitNotebooks, MaxFaults)
    /\ LogsIdle
    /\ SubmitIdle
    /\ UploaderIdle
    /\ EtlIdle
    /\ waitPc = "test"
    /\ timeoutMs \in 0..MaxWait
    /\ elapsed = 0

NextWait ==
    \/ Next
    \/ WaitTest
    \/ WaitPollStatus
    \/ WaitPollMarker
    \/ WaitGot
    \/ WaitSleep

SpecWait == InitWait /\ [][NextWait]_vars

\* The calls of runNotebook made by the callers of one server
InitSubmit ==
    /\ Boot({<<>>}, MaxFaults)
    /\ LogsIdle
    /\ WaitIdle
    /\ UploaderIdle
    /\ EtlIdle
    /\ clock = 0
    /\ runs = [c \in Callers |-> NotCalled]
    /\ instances = {}

NextSubmit ==
    \/ Tick
    \/ runNotebook

SpecSubmit == InitSubmit /\ [][NextSubmit]_vars

\* The script runs to its end, the timer fires, and reads succeed again and
\* again
SpecLogsFair ==
    /\ SpecLogs
    /\ WF_vars(RunnerWrite)
    /\ WF_vars(RunnerExit)
    /\ WF_vars(StreamTick)
    /\ SF_vars(StreamGet(TRUE))

\* One page with the component, and one submitted job
InitUploader ==
    /\ Boot({<<>>}, MaxFaults)
    /\ LogsIdle
    /\ WaitIdle
    /\ SubmitIdle
    /\ EtlIdle
    /\ upPc = "form"
    /\ file = FALSE
    /\ statusInterval = NoInterval
    /\ logPollingInterval = NoInterval
    /\ checkingStatus = FALSE
    /\ jobStatus = "null"
    /\ logLoadAttempts = 0
    /\ logContent = ""
    /\ submitRender = Render
    /\ timers = {}
    /\ inFlight = 0
    /\ currentAttempts = 0

NextUploader ==
    \/ handleFileChange
    \/ handleSubmit
    \/ SubmitResponse
    \/ LogTimeout
    \/ LogTick
    \/ SlowTick
    \/ StatusTick
    \/ StatusResponse

SpecUploader == InitUploader /\ [][NextUploader]_vars

\* One event for the handler, a checkpoint directory of up to MaxFiles
\* files, and a training job in progress or stopped
InitEtl ==
    /\ Boot({<<>>}, MaxFaults)
    /\ LogsIdle
    /\ WaitIdle
    /\ SubmitIdle
    /\ UploaderIdle
    /\ etlPc = "idle"
    /\ checkpointFiles \in 0..MaxFiles
    /\ TrainingJobStatus \in {"InProgress", "Stopped"}
    /\ attempts = 0
    /\ attempted = {}
    /\ queued = TRUE
    /\ etlFailed = FALSE

NextEtl ==
    \/ EtlInvoke
    \/ pauseTrainingJob
    \/ JobStops
    \/ waitForJobToStop
    \/ getCheckpointPath
    \/ copyCheckpointFiles

SpecEtl == InitEtl /\ [][NextEtl]_vars

\* The Lambda service runs every invocation it has accepted, and an
\* invocation goes on until it returns
SpecEtlFair == SpecEtl /\ WF_vars(NextEtl)

\* ------------------------------------------------------------------------
\* Properties
\* ------------------------------------------------------------------------
Terminal == {"COMPLETED", "FAILED"}
Stored == s3[statusKey]
HasPrev == "cellsCompleted" \in DOMAIN prev

\* C1: the cellsCompleted values returned by successive calls of
\* getNotebookExecutionStatus never decrease, and every status record in the
\* store has cellsCompleted <= cellsTotal.
C1_MonotonicProgress ==
    /\ (IsStatus(result) /\ HasPrev) => result.cellsCompleted >= prev.cellsCompleted
    /\ Exists(statusKey) => Stored.cellsCompleted <= Stored.cellsTotal

\* two reads between which the second cell of the notebook was completed
C1_Witness ==
    /\ IsStatus(result) /\ HasPrev
    /\ prev.cellsCompleted = 1 /\ result.cellsCompleted = 2
    /\ Len(nb) = 2 /\ nb[2].execution_count = 2

\* C2: once a read has returned COMPLETED or FAILED, every later read of the
\* status record returns the same status and the same endTime.
C2_TerminalIdempotence ==
    (IsStatus(result) /\ HasPrev /\ prev.status \in Terminal)
        => /\ result.status = prev.status
           /\ "endTime" \in DOMAIN result
           /\ result.endTime = prev.endTime

\* C3: shutdown_marker.json is written at most once during the run.
C3_AtMostOneMarker == markerPuts <= 1

Rank(status) == CASE status = "PENDING" -> 0
                  [] status = "RUNNING" -> 1
                  [] status \in Terminal -> 2

\* C4: no write changes a stored COMPLETED to FAILED, a stored FAILED to
\* COMPLETED or a terminal status to RUNNING; the stored status only moves
\* forward along PENDING -> RUNNING -> (COMPLETED | FAILED).
C4_StatusForward ==
    [][Exists(statusKey) =>
         /\ Rank(Stored'.status) >= Rank(Stored.status)
         /\ Stored.status \in Terminal => Stored'.status = Stored.status]_vars

\* a FAILED record was written over a FAILED record
C4_Witness ==
    /\ pc = "main_partial"
    /\ exc = CellExecutionError
    /\ Exists(statusKey) /\ Stored.status = "FAILED"
    /\ markerPuts = 1

\* C5: when the cell at index i raised an execution error and the executor
\* has exited, the stored status is FAILED with errorDetail.cellIndex = i and
\* the reason of the stored shutdown marker names index i.  Stated for the
\* runs in which no storage or platform call failed.
C5_MidRunFailure ==
    (pc = "exited" /\ exc = CellExecutionError /\ faults = 0)
        => /\ Exists(statusKey)
           /\ Stored.status = "FAILED"
           /\ "errorDetail" \in DOMAIN Stored
           /\ "cellIndex" \in DOMAIN Stored.errorDetail
           /\ Stored.errorDetail.cellIndex = cell_index
           /\ Exists(shutdownKey)
           /\ "index" \in DOMAIN s3[shutdownKey].reason
           /\ s3[shutdownKey].reason.index = cell_index

\* C6: a call of getNotebookExecutionStatus made while status.json does not
\* exist returns a PENDING record for the executionId, and so does
\* checkExecutionStatus; neither raises.
C6_NotFoundAsPending ==
    [][(pollPc = "idle" /\ ~Exists(statusKey) /\ result' # result)
         => /\ "status" \in DOMAIN result'
            /\ result'.status = "PENDING"
            /\ result'.executionId = executionId
            /\ checkExecutionStatus(result') = result']_vars

\* a call has returned PENDING and the status object still does not exist
C6_Witness ==
    /\ ~Exists(statusKey)
    /\ pollPc = "idle"
    /\ "status" \in DOMAIN result /\ result.status = "PENDING"

\* the status records of update_status: the lifecycle script's record is the
\* only one with currentCell null
ByUpdateStatus ==
    /\ Exists(statusKey)
    /\ ~("currentCell" \in DOMAIN Stored /\ Stored.currentCell = Null)

\* C7: in every status record written by update_status, progress is
\* floor(100 * cellsCompleted / cellsTotal) when cellsTotal > 0 and 0 when
\* cellsTotal = 0, and 0 <= progress <= 100.
C7_ProgressFormula ==
    ByUpdateStatus =>
        /\ Stored.progress \in 0..100
        /\ Stored.cellsTotal = 0 => Stored.progress = 0
        /\ Stored.cellsTotal > 0 =>
             /\ Stored.progress * Stored.cellsTotal <= 100 * Stored.cellsCompleted
             /\ 100 * Stored.cellsCompleted < (Stored.progress + 1) * Stored.cellsTotal

\* a record in which the division is not exact: 2 of 3 cells, progress 66
C7_Witness ==
    /\ ByUpdateStatus
    /\ Stored.cellsTotal = 3 /\ Stored.cellsCompleted = 2 /\ Stored.progress = 66

HasCurrentCell ==
    /\ ByUpdateStatus
    /\ "currentCell" \in DOMAIN Stored

\* C8: currentCell.source is the source of the cell unchanged when it has at
\* most 500 characters, and its first 500 characters followed by the
\* three-character marker when it has more.
C8_Truncation ==
    HasCurrentCell =>
        LET source == CellAt(nb, Stored.currentCell.index).source
        IN  IF TextLen(source) <= 500
            THEN Stored.currentCell.source = source
            ELSE Stored.currentCell.source = [chars |-> 500, dots |-> 3]

\* the current cell has a source of 501 characters, stored as 500 and "..."
C8_Witness ==
    /\ HasCurrentCell
    /\ TextLen(CellAt(nb, Stored.currentCell.index).source) = 501
    /\ Stored.currentCell.source = [chars |-> 500, dots |-> 3]

\* C9: every cell source text in a status record, errorDetail.cellSource
\* included, carries at most the first 500 characters of the source.
C9_SourcesTruncated ==
    ByUpdateStatus =>
        /\ "currentCell" \in DOMAIN Stored =>
              Stored.currentCell.source.chars <= TruncLimit
        /\ ("errorDetail" \in DOMAIN Stored
              /\ "cellSource" \in DOMAIN Stored.errorDetail) =>
              Stored.errorDetail.cellSource.chars <= TruncLimit

\* C10: whenever the stored status is COMPLETED, the executed notebook exists
\* at executions/{executionId}/{executedFileName}.
C10_CompletedHasOutput ==
    (Exists(statusKey) /\ Stored.status = "COMPLETED") => Exists(outputKey)

\* C11: the output path the executor writes to status.json is the outputPath
\* of the record getNotebookExecutionStatus returns, and the download route
\* finds an output path in the record of a COMPLETED execution.
C11_StatusRoundTrip ==
    IsStatus(result) =>
        /\ result.outputPath = outputPath
        /\ result.status = "COMPLETED" => download(result).status = 200

\* C12: when the executor process has exited, its exit code is 0 exactly when
\* the last status record it wrote is COMPLETED, and the exit code is not 0
\* when the stored status is FAILED.
C12_ExitCode ==
    pc = "exited" =>
        /\ exit_code = 0 <=> (Exists(statusKey) /\ Stored.status = "COMPLETED")
        /\ (Exists(statusKey) /\ Stored.status = "FAILED") => exit_code # 0

\* both cells of a notebook were executed and the process exited with 0
C12_Witness ==
    /\ pc = "exited" /\ exit_code = 0
    /\ Len(nb) = 2 /\ nb[1].execution_count = 1 /\ nb[2].execution_count = 2
    /\ Stored.status = "COMPLETED"

\* C13: a pass of the stream loop whose read starts at or beyond the end of
\* the log object enqueues no event, leaves lastPosition unchanged and does not
\* end the stream; the stream then waits, and the next pass reads at the same
\* offset.
C13_RangePastEnd ==
    [][/\ (streamPc = "loop" /\ lastPosition >= Len(logs[streamLogKey])
             /\ streamPc' # "loop")
          => /\ events' = events
             /\ lastPosition' = lastPosition
             /\ ~isJobComplete'
             /\ streamPc' = "wait"
       /\ streamPc = "wait"
          => /\ lastPosition' = lastPosition
             /\ streamPc' \in {"wait", "loop"}]_vars

\* the stream has relayed the whole log, its last read was refused for its
\* range, and it is about to read at the same offset again
C13_Witness ==
    /\ streamPc = "loop"
    /\ lastRead = "InvalidRange"
    /\ lastPosition > 0
    /\ lastPosition = Len(logs[streamLogKey])
    /\ ~cancelled

\* C14: once the caller has cancelled the stream, the loop starts no further
\* read of the log object.
C14_CancelStopsPolling ==
    [][cancelled => ~(streamPc = "loop" /\ streamPc' # "loop")]_vars

\* the log object holds one of the two completion texts
LogComplete ==
    /\ streamLogKey \in DOMAIN logs
    /\ \/ Includes(logs[streamLogKey], CompletionText)
       \/ Includes(logs[streamLogKey], ErrorText)

\* C15: when the log object comes to hold a completion text while a stream
\* that was not cancelled is open and reads keep succeeding, the stream is
\* eventually closed; and the last event of a closed stream is the status
\* complete event.
C15_ClosesOnCompletion ==
    /\ [](streamPc = "closed"
            => events[Len(events)] = formatSSE("complete", "status"))
    /\ (streamPc \in {"loop", "wait"} /\ LogComplete)
          ~> (streamPc = "closed" \/ cancelled)

\* C16: in initiate_instance_shutdown the marker step, whether or not its
\* writes failed, is followed by the stop step, and a stop step in which
\* nothing fails (the instance name is resolved) issues the stop request.
C16_ShutdownDespiteDiagnostics ==
    [][/\ (pc = "cell_marker" /\ pc' # pc) => pc' = "cell_stop"
       /\ (pc = "main_marker" /\ pc' # pc) => pc' = "main_stop"
       /\ (pc \in {"cell_stop", "main_stop"} /\ pc' # pc /\ faults' = faults)
             => stopRequests' = stopRequests + 1]_vars

\* the marker could not be put, and the stop request of the same call of
\* initiate_instance_shutdown was issued
C16_Witness ==
    /\ pc = "main_failed" /\ exc = CellExecutionError
    /\ ~Exists(shutdownKey) /\ shutdownReasonFile \notin localFiles
    /\ faults = 1
    /\ stopRequests = 1

\* C17: in the runs without a failed call, when a stop request is issued the
\* FAILED status record, a partial notebook and the execution log are already
\* in the object store, and after a stop request the object store is not
\* written again.
C17_StopAfterDiagnostics ==
    [][/\ (stopRequests' > stopRequests /\ faults' = 0)
             => /\ Exists(statusKey) /\ Stored.status = "FAILED"
                /\ Exists(partialCellKey) \/ Exists(partialExecutionKey)
                /\ Exists(logKey)
       /\ (stopRequests > 0 /\ faults' = 0) => s3' = s3]_vars

\* C18: waitForExecution returns only a record whose status is COMPLETED or
\* FAILED, and it throws the timeout error only when the time waited has
\* reached timeoutMs and the last status it saw, if any, was not one of the
\* two.
C18_WaitOutcomes ==
    /\ waitPc = "returned"
          => /\ "status" \in DOMAIN result
             /\ result.status \in Terminal
    /\ waitPc = "timeout"
          => /\ elapsed >= timeoutMs
             /\ "status" \in DOMAIN result => result.status \notin Terminal

\* the wait timed out after two poll intervals with RUNNING as the last
\* status seen, while the stored status is already FAILED
C18_Witness ==
    /\ waitPc = "timeout" /\ timeoutMs = 2
    /\ "status" \in DOMAIN result /\ result.status = "RUNNING"
    /\ Exists(statusKey) /\ Stored.status = "FAILED"

\* C19: any two calls of runNotebook that have minted their identifiers hold
\* different executionIds and different instance names.
C19_UniqueExecutionIds ==
    \A a, b \in Callers :
        (a # b /\ Minted(a) /\ Minted(b))
            => /\ ExecutionIdOf(runs[a].timestamp) # ExecutionIdOf(runs[b].timestamp)
               /\ InstanceNameOf(runs[a].timestamp) # InstanceNameOf(runs[b].timestamp)

\* C20: the executor starts a cell only when no exception is being handled;
\* the first cell it starts is cell 0 and every later one is the cell after
\* the one it executed last; once a cell has raised CellExecutionError, or any
\* other exception is being handled, the executor starts no cell and the
\* failing index stays as it is.
C20_NoRetryNoContinuation ==
    [][/\ cell_index' >= cell_index
       /\ (pc' = "cell_pre" /\ pc # "cell_pre")
             => /\ exc = NoExc
                /\ \/ pc = "init_status" /\ cell_index' = 0
                   \/ pc = "cell_post" /\ cell_index' = cell_index + 1
       /\ (pc' = "cell_exec" /\ pc # "cell_exec")
             => /\ exc = NoExc
                /\ pc = "cell_pre" /\ cell_index' = cell_index
       /\ exc # NoExc
             => /\ exc' # NoExc
                /\ cell_index' = cell_index
                /\ pc' \notin {"cell_pre", "cell_exec", "cell_post"}]_vars

\* cell 0 of a notebook of two code cells raised, the executor has exited and
\* cell 1 was never executed
C20_Witness ==
    /\ pc = "exited" /\ exc = CellExecutionError /\ cell_index = 0
    /\ Len(nb) = 2
    /\ nb[1].outputs = <<ErrorOutput>>
    /\ IsCode(nb[2]) /\ nb[2].execution_count = NoCount

\* C21: while a code cell is being executed the stored status record names it
\* as currentCell, and when the executor is about to start the cell after a
\* code cell that succeeded, the stored record counts that cell: its
\* cellsCompleted is the number of code cells with an execution count.
C21_CheckpointOrdering ==
    /\ (pc = "cell_exec" /\ IsCode(CellAt(nb, cell_index)))
          => /\ Exists(statusKey)
             /\ "currentCell" \in DOMAIN Stored
             /\ "index" \in DOMAIN Stored.currentCell
             /\ Stored.currentCell.index = cell_index
    /\ (pc = "cell_pre" /\ cell_index > 0)
          => /\ Exists(statusKey)
             /\ Stored.cellsCompleted = completed_cells(nb)
             /\ IsCode(CellAt(nb, cell_index - 1))
                   => IsCounted(CellAt(nb, cell_index - 1))

\* cell 1 is being executed after cell 0 succeeded: the record names cell 1
\* and counts cell 0
C21_Witness ==
    /\ pc = "cell_exec" /\ cell_index = 1
    /\ IsCode(nb[1]) /\ IsCode(nb[2]) /\ nb[2].execution_count = NoCount
    /\ Stored.currentCell.index = 1
    /\ Stored.cellsCompleted = 1

\* C22: when the executor has exited on a failure that is not a cell error
\* (nbformat.read or the first update_status raised, so no exception reached
\* a handler), the stored status record is FAILED, not RUNNING, and the stop
\* of the host was requested.
C22_NonCellFailureFails ==
    (pc = "exited" /\ exit_code # 0 /\ exc = NoExc)
        => /\ Exists(statusKey)
           /\ Stored.status = "FAILED"
           /\ stopRequests > 0

\* a cell of the notebook raised CellExecutionError
CellErrorRaised == \E i \in 1..Len(nb) : nb[i].outputs = <<ErrorOutput>>

\* C23: when the executor has exited after a cell error, whatever diagnostic
\* write failed on the way, the stop of the host was requested, the exit code
\* is not zero and the stored FAILED record carries the message of the cell
\* error.
C23_DiagnosticsNeverMask ==
    (pc = "exited" /\ CellErrorRaised)
        => /\ exit_code # 0
           /\ stopRequests > 0
           /\ Exists(statusKey)
           /\ Stored.status = "FAILED"
           /\ Stored.errorMessage = str(CellExecutionError)

\* C24: a failed GetObject of the existing status object on one poll never
\* ends waitForExecution: the wait does not finish by throwing the error of
\* the read to its caller.
C24_ReadErrorRetried == ~(waitPc = "threw" /\ result = Thrown)

\* the bytes of the log events enqueued so far, in order
RECURSIVE Relayed(_)
Relayed(evs) ==
    IF evs = <<>> THEN <<>>
    ELSE (IF Head(evs).event = "log" THEN Head(evs).data ELSE <<>>)
         \o Relayed(Tail(evs))

\* C25: in a session that was not cancelled, after a read that returned
\* content lastPosition is the number of bytes relayed so far, and the log
\* events put together are a prefix of the log object: no byte is relayed
\* twice and none is skipped.
C25_OffsetAccounting ==
    (lastRead = "content" /\ ~cancelled)
        => LET sent == Relayed(events)
               body == logs[streamLogKey]
           IN  /\ lastPosition = Len(sent)
               /\ Len(sent) <= Len(body)
               /\ sent = SubSeq(body, 1, Len(sent))

\* C26: once the lifecycle script is past the pipeline that runs the
\* executor, an executor that exited with a non-zero code has set
\* EXECUTION_FAILED, so that the script takes its failure branch and does not
\* upload the executed notebook.
C26_FailureBranchOnNonZeroExit ==
    (scriptPc \in {"upload_log", "results", "done"} /\ pc = "exited" /\ exit_code > 0)
        => EXECUTION_FAILED

\* C27: a result returned by getNotebookExecutionStatus that reports the
\* shutdown of the instance has status FAILED.
C27_ShutdownOnlyWithFailed ==
    ("isInstanceShutdown" \in DOMAIN result /\ result.isInstanceShutdown)
        => result.status = "FAILED"

\* C28: the executor requests the stop of its host at most once in one
\* execution, and not at all when the stored status is COMPLETED.
C28_AtMostOneStopRequest ==
    /\ stopRequests <= 1
    /\ (Exists(statusKey) /\ Stored.status = "COMPLETED") => stopRequests = 0

\* C29: once a job-status response with status Completed, Failed or Stopped
\* has been processed no timer of the page is left set, so that no further
\* job-status or notebook-logs request is issued; and at most one call of
\* checkJobStatus is in flight at any time.
C29_PollingStops ==
    /\ (upPc = "watching" /\ jobStatus \in TerminalJobStatuses) => timers = {}
    /\ inFlight <= 1

\* C30: unless an invocation fails, the chain of invocations of the handler
\* comes to an end with a copy attempted for every file of the checkpoint
\* directory.
C30_AllFilesCopied ==
    \/ <>etlFailed
    \/ <>[](/\ etlPc = "idle"
            /\ ~queued
            /\ attempted = 1..checkpointFiles)

====
